---- MODULE Spec2Model ----
(***************************************************************************)
(* Rate limit service (rate-limit-service/main.go): the Decision Engine    *)
(* RateLimitServer.ShouldRateLimit / checkRateLimit in front of the        *)
(* Admission Cache (ristretto) and the Counter Store (Redis cluster).      *)
(*                                                                         *)
(* A pointer that may be nil is a sequence of length 0 (nil) or 1.         *)
(* Time is counted in seconds.  The Counter Store is shared with the other *)
(* replicas and outlives the process, so the process may start against     *)
(* counters that other replicas have already driven up to their limit.     *)
(* The batcher's two channels are part of the state; the handler and the   *)
(* scan of one descriptor are also run on their own (SpecScan), and beside *)
(* the other replicas (SpecReplicas).  The worker pool is followed with a  *)
(* sender on its queue (SpecBatcher), the handler behind the tracing       *)
(* interceptor (SpecTransport), and main from its first step (SpecProcess).*)
(* CreateUser of the user service runs over a Redis of its own (SpecUsers). *)
(***************************************************************************)
EXTENDS Integers, Sequences, FiniteSets, TLC

\* ---------------------------------------------------------------- bounds
MaxEntries == 2         \* entries in all descriptors of one request together
MaxEvals == 2           \* descriptors evaluated in one behaviour, by all replicas
MaxRequests == 2        \* requests handled in one behaviour
MaxTime == 62           \* the clock stops here
MaxHot == 1             \* counters another replica left at or one below the limit
MaxScanEntries == 3     \* entries of the descriptor whose scan is checked alone
NumWorkers == 2         \* workers of the pool that are followed
MaxSends == 2           \* requests put on the workers' queue in one behaviour
MaxTraceValues == 2     \* values one tracing header carries in the metadata
MaxCallers == 2         \* CreateUser calls of the user service that run side by side

\* ------------------------------------------------------- program constants
ipLimit == 1000
pathLimit == 500
companyLimit == 10000
userLimit == 100
window == 60
queueCapacity == 10000
bufferCapacity == 100
poolSize == 10

\* ------------------------------------------------------------ vocabulary
\* Descriptor keys the requests of this model use: two recognized dimensions
\* with different limits and one key the scan does not recognize.
EntryKeys == {"remote_address", "user_id", "foo"}
Values == {"a"}
Entries == [Key : EntryKeys, Value : Values]

CounterKeys == {p \o v : p \in {"ip:", "user:"}, v \in Values}

NoExpiry == -1
OK == "OK"
OVER_LIMIT == "OVER_LIMIT"
UNKNOWN == "UNKNOWN"
MINUTE == "MINUTE"

SeqsUpTo(S, n) == UNION {[1..m -> S] : m \in 0..n}

Descriptors == SeqsUpTo(Entries, MaxEntries)

\* Requests of at most n descriptors that hold at most e entries together.
RECURSIVE RequestsWithin(_, _)
RequestsWithin(n, e) ==
    IF n = 0 THEN {<<>>}
    ELSE {<<>>} \cup UNION {{<<d>> \o r : r \in RequestsWithin(n - 1, e - Len(d))} :
                              d \in SeqsUpTo(Entries, e)}

Requests == {r : r \in RequestsWithin(MaxEvals, MaxEntries)}

\* uint32(x) of a Go int: the counts and limits of this model stay within
\* 0..2^31-1, where the conversion keeps the value; a negative int would wrap,
\* which no count or limit here is.
Uint32(x) == IF x >= 0 THEN x ELSE x + 2147483647

VARIABLES
    redis,              \* Counter Store: live key -> [count, expireAt]
    localCache,         \* Admission Cache: cached key -> count
    now,                \* wall clock, seconds
    rateLimitRequests,  \* rate_limit_requests_total, by status label
    redisErrors,        \* redis_errors_total, by operation label
    request,            \* descriptors of the last request handled
    response,           \* <<>> before the first request, else <<RateLimitResponse>>
    rpcError,           \* the error ShouldRateLimit returned with it (<<>> is nil)
    evals,              \* what checkRateLimit did for each descriptor of the last request
    evaluated,          \* descriptors evaluated so far (bounds the behaviour)
    updateQueue,        \* RateLimitServer.updateQueue: requests buffered in the channel
    queue,              \* UpdateWorkerPool.queue, the channel the workers receive from
    buffer,             \* UpdateWorker.buffer of each worker
    execs,              \* pipelines the workers have executed so far
    event,              \* what the last step of a worker was (<<>> before the first)
    sent,               \* requests put on the workers' queue so far (bounds the behaviour)
    metadata,           \* incoming metadata of the call in progress (<<>> is none)
    ctx,                \* the context the interceptor passed to the handler
    reply               \* what the interceptor returned to the transport (<<>> before)

\* The call as the transport sees it.
transportVars == <<metadata, ctx, reply>>

VARIABLES
    proc,               \* the process: how far main has come, what it has started
    env                 \* the environment of the process: variable -> <<>> or <<value>>

processVars == <<proc, env>>

\* The user service (user-service/internal): its Redis and its calls in progress.
VARIABLES
    users,              \* key user:<id> -> the user stored under it
    emailIndex,         \* key user:email:<email> -> the id stored under it
    calls               \* each CreateUser call: where it stands, what it holds

userVars == <<users, emailIndex, calls>>

\* The batcher: its two channels and its workers.
batcherVars == <<updateQueue, queue, buffer, execs, event, sent>>

vars == <<redis, localCache, now, rateLimitRequests, redisErrors, request, response,
          rpcError, evals, evaluated, updateQueue, queue, buffer, execs, event, sent,
          metadata, ctx, reply, proc, env, users, emailIndex, calls>>

\* ------------------------------------------------------- checkRateLimit
\* The scan of lines 365-380: every recognized entry overwrites limit and key.
\* A scan whose path arm kept the limit of the arm above it.
RECURSIVE ScanEntries_PathUnderIpLimit(_, _)
ScanEntries_PathUnderIpLimit(entries, acc) ==
    IF entries = <<>> THEN acc
    ELSE LET entry == Head(entries)
             nxt == CASE entry.Key = "remote_address" ->
                            [limit |-> ipLimit, key |-> "ip:" \o entry.Value]
                      [] entry.Key = "path" ->
                            [limit |-> ipLimit, key |-> "path:" \o entry.Value]
                      [] entry.Key = "company_id" ->
                            [limit |-> companyLimit, key |-> "company:" \o entry.Value]
                      [] entry.Key = "user_id" ->
                            [limit |-> userLimit, key |-> "user:" \o entry.Value]
                      [] OTHER -> acc
         IN ScanEntries_PathUnderIpLimit(Tail(entries), nxt)

\* A scan that stopped at the first recognized entry.
RECURSIVE ScanEntries_FirstWins(_, _)
ScanEntries_FirstWins(entries, acc) ==
    IF entries = <<>> THEN acc
    ELSE LET entry == Head(entries)
             nxt == CASE acc.key # "" -> acc
                      [] entry.Key = "remote_address" ->
                            [limit |-> ipLimit, key |-> "ip:" \o entry.Value]
                      [] entry.Key = "path" ->
                            [limit |-> pathLimit, key |-> "path:" \o entry.Value]
                      [] entry.Key = "company_id" ->
                            [limit |-> companyLimit, key |-> "company:" \o entry.Value]
                      [] entry.Key = "user_id" ->
                            [limit |-> userLimit, key |-> "user:" \o entry.Value]
                      [] OTHER -> acc
         IN ScanEntries_FirstWins(Tail(entries), nxt)

\* A scan that counted an entry with any other key under its value's address.
RECURSIVE ScanEntries_CountsUnknown(_, _)
ScanEntries_CountsUnknown(entries, acc) ==
    IF entries = <<>> THEN acc
    ELSE LET entry == Head(entries)
             nxt == CASE entry.Key = "remote_address" ->
                            [limit |-> ipLimit, key |-> "ip:" \o entry.Value]
                      [] entry.Key = "path" ->
                            [limit |-> pathLimit, key |-> "path:" \o entry.Value]
                      [] entry.Key = "company_id" ->
                            [limit |-> companyLimit, key |-> "company:" \o entry.Value]
                      [] entry.Key = "user_id" ->
                            [limit |-> userLimit, key |-> "user:" \o entry.Value]
                      [] OTHER -> [limit |-> ipLimit, key |-> "ip:" \o entry.Value]
         IN ScanEntries_CountsUnknown(Tail(entries), nxt)

RECURSIVE ScanEntries(_, _)
ScanEntries(entries, acc) ==
    IF entries = <<>> THEN acc
    ELSE LET entry == Head(entries)
             nxt == CASE entry.Key = "remote_address" ->
                            [limit |-> ipLimit, key |-> "ip:" \o entry.Value]
                      [] entry.Key = "path" ->
                            [limit |-> pathLimit, key |-> "path:" \o entry.Value]
                      [] entry.Key = "company_id" ->
                            [limit |-> companyLimit, key |-> "company:" \o entry.Value]
                      [] entry.Key = "user_id" ->
                            [limit |-> userLimit, key |-> "user:" \o entry.Value]
                      [] OTHER -> acc
         IN ScanEntries(Tail(entries), nxt)

\* redis.Incr: creates the counter at 1 without expiration, else adds one.
\* A client that sent the command a second time (a retry after a lost reply).
Incr_AppliedTwice(store, key) ==
    IF key \in DOMAIN store
    THEN [k \in DOMAIN store |->
            IF k = key THEN [store[k] EXCEPT !.count = @ + 2] ELSE store[k]]
    ELSE [k \in DOMAIN store \cup {key} |->
            IF k = key THEN [count |-> 2, expireAt |-> NoExpiry] ELSE store[k]]

\* A store that wrote 1 whatever the counter held (SET in place of INCR).
Incr_Overwrites(store, key) ==
    [k \in DOMAIN store \cup {key} |->
        IF k = key THEN [count |-> 1,
                         expireAt |-> IF key \in DOMAIN store THEN store[key].expireAt
                                      ELSE NoExpiry]
        ELSE store[k]]

Incr(store, key) ==
    IF key \in DOMAIN store
    THEN [k \in DOMAIN store |->
            IF k = key THEN [store[k] EXCEPT !.count = @ + 1] ELSE store[k]]
    ELSE [k \in DOMAIN store \cup {key} |->
            IF k = key THEN [count |-> 1, expireAt |-> NoExpiry] ELSE store[k]]

\* redis.Expire(key, window): the key expires window seconds from now.
Expire(store, key, t) ==
    IF key \in DOMAIN store
    THEN [k \in DOMAIN store |->
            IF k = key THEN [store[k] EXCEPT !.expireAt = t + window] ELSE store[k]]
    ELSE store

\* localCache.Set(key, count, 1)
\* A Set that stored the count the next request would reach.
CacheSet_CountsAhead(cache, key, count) ==
    [k \in DOMAIN cache \cup {key} |-> IF k = key THEN count + 1 ELSE cache[k]]

CacheSet(cache, key, count) ==
    [k \in DOMAIN cache \cup {key} |-> IF k = key THEN count ELSE cache[k]]

\* What the calls of one evaluation turn out to do: all succeed ("none"), or
\* the named call fails: redis.Incr returns an error and leaves the counter as
\* it was, redis.Expire fails (the code ignores its result), or the cache does
\* not admit the Set.
Fates == {"none", "incr", "expire", "set"}

\* checkRateLimit(descriptor): ret0 and ret1 are the first two values returned,
\* err the third ("" is nil).  st carries the cache, the store and redis_errors.
checkRateLimit(descriptor, st, fate, t) ==
    LET sel == ScanEntries(descriptor, [limit |-> 0, key |-> ""])
        limit == sel.limit
        key == sel.key
        base == [ret0 |-> 0, ret1 |-> 0, err |-> "", key |-> key, limit |-> limit,
                 path |-> "", count |-> 0,
                 cache |-> st.cache, store |-> st.store, redisErrors |-> st.redisErrors]
    IN
    IF key = ""
    THEN [base EXCEPT !.err = "no valid rate limit key found in descriptor",
                      !.path = "nokey"]
    ELSE IF key \in DOMAIN st.cache /\ st.cache[key] >= limit
    THEN [base EXCEPT !.ret0 = st.cache[key], !.ret1 = limit,
                      !.path = "cached", !.count = st.cache[key]]
    ELSE IF fate = "incr"
    THEN [base EXCEPT !.err = "redis error", !.path = "incr_failed",
                      !.redisErrors = [@ EXCEPT !["incr"] = @ + 1]]
    ELSE LET s1 == Incr(st.store, key)
             count == s1[key].count
             s2 == IF count = 1 /\ fate # "expire" THEN Expire(s1, key, t) ELSE s1
             c2 == IF fate # "set" THEN CacheSet(st.cache, key, count) ELSE st.cache
         IN [base EXCEPT !.ret0 = count, !.ret1 = limit,
                         !.path = "incremented", !.count = count,
                         !.store = s2, !.cache = c2]

\* ------------------------------------------------------ ShouldRateLimit
NewStatus == [Code |-> OK, CurrentLimit |-> <<>>, LimitRemaining |-> 0]

\* The CurrentLimit of lines 344-347.
\* A limit that named the unit the window is counted in.
RateLimit_PerSecond(limit) == [RequestsPerUnit |-> Uint32(limit), Unit |-> "SECOND"]

RateLimit(limit) == [RequestsPerUnit |-> Uint32(limit), Unit |-> MINUTE]

\* One iteration of the loop of lines 323-352 on descriptor i.
LoopBody(acc, descriptor, fate, t) ==
    LET r == checkRateLimit(descriptor,
                 [cache |-> acc.cache, store |-> acc.store,
                  redisErrors |-> acc.redisErrors], fate, t)
        \* limit, remaining, err := s.checkRateLimit(descriptor)
        limit == r.ret0
        remaining == r.ret1
        withLimit ==
            IF limit > 0
            THEN [NewStatus EXCEPT
                    !.CurrentLimit = <<RateLimit(limit)>>,
                    !.LimitRemaining = Uint32(remaining)]
            ELSE NewStatus
        common == [acc EXCEPT !.cache = r.cache, !.store = r.store,
                              !.redisErrors = r.redisErrors,
                              !.evals = Append(@, [key |-> r.key, limit |-> r.limit,
                                                   path |-> r.path, count |-> r.count])]
    IN
    IF r.err # ""
    THEN \* status.Code = OVER_LIMIT on the local status, then continue:
         \* response.Statuses[i] keeps the nil make() put there.
         [common EXCEPT !.errorRequests = @ + 1,
                        !.statuses = Append(@, <<>>)]
    ELSE [common EXCEPT !.statuses = Append(@, <<withLimit>>)]

\* A loop that returned at the first descriptor whose check failed.
RECURSIVE Loop_StopsAtError(_, _, _, _)
Loop_StopsAtError(acc, descriptors, fates, t) ==
    IF descriptors = <<>> THEN acc
    ELSE LET a == LoopBody(acc, Head(descriptors), Head(fates), t)
         IN IF a.statuses[Len(a.statuses)] = <<>> THEN a
            ELSE Loop_StopsAtError(a, Tail(descriptors), Tail(fates), t)

RECURSIVE Loop(_, _, _, _)
Loop(acc, descriptors, fates, t) ==
    IF descriptors = <<>> THEN acc
    ELSE Loop(LoopBody(acc, Head(descriptors), Head(fates), t),
              Tail(descriptors), Tail(fates), t)

\* What the handler returns once the loop is over (line 356): the response
\* built at lines 317-320, whose OverallCode nothing changed since, and a nil
\* error.
\* A handler that propagated the last checkRateLimit error to its caller.
Return_PropagatesError(acc) ==
    IF \E i \in 1..Len(acc.statuses) : acc.statuses[i] = <<>>
    THEN [response |-> <<>>, err |-> <<"rate limit check failed">>]
    ELSE [response |-> <<[OverallCode |-> OK, Statuses |-> acc.statuses]>>, err |-> <<>>]

Return(acc) ==
    [response |-> <<[OverallCode |-> OK, Statuses |-> acc.statuses]>>, err |-> <<>>]

ShouldRateLimit(req, fates) ==
    LET start == [cache |-> localCache, store |-> redis, redisErrors |-> redisErrors,
                  errorRequests |-> rateLimitRequests["error"],
                  statuses |-> <<>>, evals |-> <<>>]
    IN
    /\ evaluated' = evaluated + Len(req)
    /\ \E end \in {Loop(start, req, fates, now)} :
        /\ localCache' = end.cache
        /\ redis' = end.store
        /\ redisErrors' = end.redisErrors
        /\ rateLimitRequests' = [success |-> rateLimitRequests["success"] + 1,
                                 error |-> end.errorRequests]
        /\ request' = req
        /\ response' = Return(end).response
        /\ rpcError' = Return(end).err
        /\ evals' = end.evals
        /\ UNCHANGED <<now, batcherVars, processVars, userVars>>

\* ------------------------------------------------- grpcTracingInterceptor
TraceKeys == {"x-request-id", "x-b3-traceid", "x-b3-spanid"}
TraceValues == {"1", "2"}
NoMetadata == <<>>
Metadatas ==
    {NoMetadata} \cup {<<md>> : md \in [TraceKeys -> SeqsUpTo(TraceValues, MaxTraceValues)]}

\* The context the transport calls the interceptor with: no tracing value
\* bound; the caller may cancel it while the call runs.
Incoming(canceled) == [canceled |-> canceled, values |-> [k \in TraceKeys |-> <<>>]]

\* The context of lines 479-495: each key the metadata holds a value for is
\* bound to the first of its values.
\* An interceptor that bound the value sent last.
TracingContext_LastValue(ctx0, md) ==
    IF md = NoMetadata THEN ctx0
    ELSE [ctx0 EXCEPT !.values =
            [k \in TraceKeys |->
                IF Len(md[1][k]) > 0 THEN <<md[1][k][Len(md[1][k])]>> ELSE ctx0.values[k]]]

TracingContext(ctx0, md) ==
    IF md = NoMetadata THEN ctx0
    ELSE [ctx0 EXCEPT !.values =
            [k \in TraceKeys |->
                IF Len(md[1][k]) > 0 THEN <<md[1][k][1]>> ELSE ctx0.values[k]]]

\* return handler(ctx, req) (line 497), around the handler's step.
Intercepted(md, canceled) ==
    /\ metadata' = md
    /\ ctx' = TracingContext(Incoming(canceled), md)
    /\ reply' = <<[response |-> response', err |-> rpcError']>>

\* A call has returned and its result is not yet handed to the transport.
Returned == response # <<>> \/ rpcError # <<>>

\* The transport hands one request to the handler; calls are taken one at a time.
HandleRequest ==
    /\ ~Returned
    /\ rateLimitRequests["success"] < MaxRequests
    /\ \E req \in Requests :
          /\ evaluated + Len(req) <= MaxEvals
          /\ \E fates \in [1..Len(req) -> Fates] : ShouldRateLimit(req, fates)
    /\ Intercepted(NoMetadata, FALSE)

\* ---------------------------------------------------------- environment
\* Time passes, a little over half a window at a time; the store drops every
\* counter whose expiration is reached.
Live(store, t) ==
    {k \in DOMAIN store : store[k].expireAt = NoExpiry \/ store[k].expireAt > t}

Tick ==
    \E d \in {window \div 2 + 1} :
        /\ ~Returned
        /\ now + d <= MaxTime
        /\ now' = now + d
        /\ redis' = [k \in Live(redis, now + d) |-> redis[k]]
        /\ UNCHANGED <<localCache, rateLimitRequests, redisErrors, request, response,
                       rpcError, evals, evaluated, batcherVars, transportVars,
                       processVars, userVars>>

\* The cache evicts an entry (ristretto's OnEvict).
Evict ==
    \E k \in DOMAIN localCache :
        /\ ~Returned
        /\ localCache' = [j \in DOMAIN localCache \ {k} |-> localCache[j]]
        /\ UNCHANGED <<redis, now, rateLimitRequests, redisErrors, request, response,
                       rpcError, evals, evaluated, batcherVars, transportVars,
                       processVars, userVars>>

\* grpcTracingInterceptor returns the handler's result to the transport; the
\* call is over.
Deliver ==
    /\ Returned
    /\ request' = <<>>
    /\ response' = <<>>
    /\ rpcError' = <<>>
    /\ evals' = <<>>
    /\ metadata' = NoMetadata
    /\ ctx' = Incoming(FALSE)
    /\ reply' = <<>>
    /\ UNCHANGED <<redis, localCache, now, rateLimitRequests, redisErrors, evaluated,
                   batcherVars, processVars, userVars>>

\* Another replica of the service runs lines 396-405 on the shared store for
\* a descriptor of one of its own requests.
OtherReplica ==
    \E k \in CounterKeys :
        /\ ~Returned
        /\ evaluated < MaxEvals
        /\ evaluated' = evaluated + 1
        /\ redis' = LET s1 == Incr(redis, k)
                    IN IF s1[k].count = 1 THEN Expire(s1, k, now) ELSE s1
        /\ UNCHANGED <<localCache, now, rateLimitRequests, redisErrors, request,
                       response, rpcError, evals, batcherVars, transportVars,
                       processVars, userVars>>

LimitOf(k) ==
    CASE k = "ip:a" -> ipLimit
      [] k = "user:a" -> userLimit

Workers == 1..NumWorkers

\* ------------------------------------------------------------ startup
\* main (lines 415-474) and, from its fourth step on, NewRateLimitServer
\* (lines 133-203), in the order of the code.
\* A constructor that started the pool before testing the connection.
StartupSteps_PoolBeforePing ==
    <<"main_logger", "listen", "logger", "cache", "pool", "ping", "serve">>

StartupSteps == <<"main_logger", "listen", "logger", "cache", "ping", "pool", "serve">>

\* The steps that return an error; every one of them ends the process
\* (log.Fatalf, logger.Fatal).
Fallible == {"main_logger", "listen", "logger", "cache", "ping", "serve"}

\* The process once grpcServer.Serve is accepting calls.
Serving == [state |-> "serving", at |-> Len(StartupSteps) + 1,
            done |-> {StartupSteps[i] : i \in 1..Len(StartupSteps)},
            failed |-> {}, workers |-> poolSize]

\* The environment k8s/deployment.yaml gives the container.
EnvNames == {"RATE_LIMIT_WINDOW", "IP_RATE_LIMIT", "COMPANY_RATE_LIMIT",
             "PATH_RATE_LIMIT", "USER_RATE_LIMIT"}
DeploymentEnv ==
    [n \in EnvNames |->
        CASE n = "RATE_LIMIT_WINDOW" -> <<60>>
          [] n = "IP_RATE_LIMIT" -> <<1000>>
          [] n = "COMPANY_RATE_LIMIT" -> <<10000>>
          [] OTHER -> <<>>]

\* The server NewRateLimitServer returns, before its first call.
InitIdle ==
    /\ localCache = <<>>
    /\ now = 0
    /\ rateLimitRequests = [success |-> 0, error |-> 0]
    /\ redisErrors = [incr |-> 0, pipeline_exec |-> 0]
    /\ request = <<>>
    /\ response = <<>>
    /\ rpcError = <<>>
    /\ evals = <<>>
    /\ evaluated = 0
    /\ updateQueue = <<>>
    /\ metadata = NoMetadata
    /\ ctx = Incoming(FALSE)
    /\ reply = <<>>

\* The user service before its first call, its Redis empty.
Callers == 1..MaxCallers
Emails == {"a@x", "b@x"}
Idle == [pc |-> "idle", email |-> "", userID |-> 0, id |-> 0, err |-> ""]
InitUserService ==
    /\ users = <<>>
    /\ emailIndex = <<>>
    /\ calls = [c \in Callers |-> Idle]

\* The process of the deployment, serving.
InitServing ==
    /\ proc = Serving
    /\ env = DeploymentEnv

\* The server against the shared store.
InitServer ==
    /\ \E hot \in SUBSET CounterKeys :
          /\ Cardinality(hot) <= MaxHot
          /\ \E below \in SUBSET hot :
                redis = [k \in hot |->
                            [count |-> IF k \in below THEN LimitOf(k) - 1 ELSE LimitOf(k),
                             expireAt |-> window]]
    /\ InitIdle
    /\ InitServing
    /\ InitUserService

\* The pool NewUpdateWorkerPool returns: an empty channel, empty buffers.
InitPool ==
    /\ queue = <<>>
    /\ buffer = [w \in Workers |-> <<>>]
    /\ execs = 0
    /\ event = <<>>
    /\ sent = 0

Init == InitServer /\ InitPool

Next == HandleRequest \/ Deliver \/ Tick \/ Evict

Spec == Init /\ [][Next]_vars

\* The replica among the others that share the Counter Store.
NextReplicas == HandleRequest \/ Deliver \/ Tick \/ Evict \/ OtherReplica

SpecReplicas == Init /\ [][NextReplicas]_vars

\* ------------------------------------------- the scan of one descriptor
\* One request of one descriptor drawn over every key the scan knows, one key
\* it does not know and two values.
ScanKeys == {"remote_address", "path", "company_id", "user_id", "foo"}
ScanValues == {"a", "b"}
ScanDescriptors == SeqsUpTo([Key : ScanKeys, Value : ScanValues], MaxScanEntries)

HandleScanned ==
    /\ ~Returned
    /\ evaluated = 0
    /\ \E descriptor \in ScanDescriptors, fate \in Fates :
          ShouldRateLimit(<<descriptor>>, <<fate>>)
    /\ Intercepted(NoMetadata, FALSE)

NextScan == HandleScanned \/ Deliver

SpecScan == Init /\ [][NextScan]_vars

\* ------------------------------------------------------- the batcher
\* The worker pool as a component: some sender puts requests on the channel
\* the workers receive from (the service itself has no such sender).
BatchEntry(k, v) == [Key |-> k, Value |-> v]
BatchRequests ==
    { << <<BatchEntry("ip", "a")>> >>,
      << <<BatchEntry("ip", "a"), BatchEntry("company_id", "c")>> >>,
      << <<BatchEntry("ip", "a")>>, <<BatchEntry("ip", "b")>> >>,
      << <<BatchEntry("remote_address", "a")>> >> }

\* The inner loops of lines 259-269: ip and companyID are variables of the
\* request, assigned at every matching entry of every descriptor.
RECURSIVE ScanBatchEntries(_, _)
ScanBatchEntries(entries, acc) ==
    IF entries = <<>> THEN acc
    ELSE LET kv == Head(entries)
             nxt == IF kv.Key = "ip" THEN [acc EXCEPT !.ip = kv.Value]
                    ELSE IF kv.Key = "company_id" THEN [acc EXCEPT !.companyID = kv.Value]
                    ELSE acc
         IN ScanBatchEntries(Tail(entries), nxt)

RECURSIVE ScanBatchDescriptors(_, _)
ScanBatchDescriptors(descriptors, acc) ==
    IF descriptors = <<>> THEN acc
    ELSE ScanBatchDescriptors(Tail(descriptors),
                              ScanBatchEntries(Head(descriptors), acc))

\* The keys one request adds to the pipeline (lines 272-280), in order.
PipelineKeys(req) ==
    LET found == ScanBatchDescriptors(req, [ip |-> "", companyID |-> ""])
        ip == found.ip
        companyID == found.companyID
    IN (IF ip # "" THEN <<"ip:" \o ip>> ELSE <<>>)
       \o (IF companyID # "" THEN <<"company:" \o companyID>> ELSE <<>>)
       \o (IF ip # "" /\ companyID # ""
           THEN <<"combined:" \o ip \o ":" \o companyID>> ELSE <<>>)

\* The pipeline of a flush: the Incr commands of each buffered request.
Pipeline(buf) == [i \in 1..Len(buf) |-> PipelineKeys(buf[i])]

Commands(pipe, k) ==
    {c \in UNION {{<<i, j>> : j \in 1..Len(pipe[i])} : i \in 1..Len(pipe)} :
        pipe[c[1]][c[2]] = k}

\* pipe.Exec applied by the store: one Incr for every queued command; a key
\* the commands create has no expiration.
Exec(store, pipe) ==
    LET keys == UNION {{pipe[i][j] : j \in 1..Len(pipe[i])} : i \in 1..Len(pipe)}
    IN [k \in DOMAIN store \cup keys |->
          IF k \in DOMAIN store
          THEN [store[k] EXCEPT !.count = @ + Cardinality(Commands(pipe, k))]
          ELSE [count |-> Cardinality(Commands(pipe, k)), expireAt |-> NoExpiry]]

\* What pipe.Exec turns out to do: it succeeds, it fails before the store
\* applied anything, or the store applied the commands and the reply was lost.
\* A pipeline without commands makes no call and cannot fail.
PipeFates == {"ok", "failed", "lost"}

\* flush (lines 251-294) on a non-empty buffer.
\* A flush that kept the batch for the next flush when the pipeline failed.
flush_KeepsFailedBatch(buf, store, errors, fate) ==
    LET pipe == Pipeline(buf)
        empty == \A i \in 1..Len(pipe) : pipe[i] = <<>>
        failed == fate # "ok" /\ ~empty
    IN [store |-> IF fate = "failed" THEN store ELSE Exec(store, pipe),
        redisErrors |-> IF failed THEN [errors EXCEPT !["pipeline_exec"] = @ + 1]
                        ELSE errors,
        failed |-> failed,
        buffer |-> IF failed THEN buf ELSE <<>>]

flush(buf, store, errors, fate) ==
    LET pipe == Pipeline(buf)
        empty == \A i \in 1..Len(pipe) : pipe[i] = <<>>
        failed == fate # "ok" /\ ~empty
    IN [store |-> IF fate = "failed" THEN store ELSE Exec(store, pipe),
        redisErrors |-> IF failed THEN [errors EXCEPT !["pipeline_exec"] = @ + 1]
                        ELSE errors,
        failed |-> failed,
        buffer |-> <<>>]

\* len(w.buffer) >= 100 (line 236).
\* A test that let the buffer pass its capacity before flushing.
BufferFull_Late(buf) == Len(buf) > bufferCapacity

BufferFull(buf) == Len(buf) >= bufferCapacity

serverVars == <<localCache, now, rateLimitRequests, request, response, rpcError, evals,
                evaluated, updateQueue, transportVars, processVars, userVars>>

\* The worker's step with the batch it flushes, or without a flush.
Flushes(w, kind, batch, fate) ==
    \E f \in {flush(batch, redis, redisErrors, fate)} :
       /\ redis' = f.store
       /\ redisErrors' = f.redisErrors
       /\ buffer' = [buffer EXCEPT ![w] = f.buffer]
       /\ execs' = execs + 1
       /\ event' = <<[worker |-> w, kind |-> kind, held |-> Len(batch),
                      flushed |-> TRUE, failed |-> f.failed]>>

Keeps(w, kind, buf) ==
    /\ buffer' = [buffer EXCEPT ![w] = buf]
    /\ event' = <<[worker |-> w, kind |-> kind, held |-> Len(buf),
                   flushed |-> FALSE, failed |-> FALSE]>>
    /\ UNCHANGED <<redis, redisErrors, execs>>

\* case req := <-w.queue (lines 234-238)
\* A receive that left the request on the channel for the next receiver.
Receive_LeavesOnQueue(w) ==
    /\ queue # <<>>
    /\ queue' = queue
    /\ LET buf == Append(buffer[w], Head(queue))
       IN IF BufferFull(buf)
          THEN \E fate \in PipeFates : Flushes(w, "pull", buf, fate)
          ELSE Keeps(w, "pull", buf)
    /\ UNCHANGED <<serverVars, sent>>

Receive(w) ==
    /\ queue # <<>>
    /\ queue' = Tail(queue)
    /\ LET buf == Append(buffer[w], Head(queue))
       IN IF BufferFull(buf)
          THEN \E fate \in PipeFates : Flushes(w, "pull", buf, fate)
          ELSE Keeps(w, "pull", buf)
    /\ UNCHANGED <<serverVars, sent>>

\* case <-ticker.C (lines 239-242)
\* A timer case that flushed a full buffer only.
TickerFires_WhenFull(w) ==
    /\ IF BufferFull(buffer[w])
       THEN \E fate \in PipeFates : Flushes(w, "tick", buffer[w], fate)
       ELSE Keeps(w, "tick", buffer[w])
    /\ UNCHANGED <<serverVars, queue, sent>>

TickerFires(w) ==
    /\ IF Len(buffer[w]) > 0
       THEN \E fate \in PipeFates : Flushes(w, "tick", buffer[w], fate)
       ELSE Keeps(w, "tick", buffer[w])
    /\ UNCHANGED <<serverVars, queue, sent>>

\* A sender on the workers' channel.
Sends(req) ==
    /\ sent < MaxSends
    /\ Len(queue) < queueCapacity
    /\ queue' = Append(queue, req)
    /\ sent' = sent + 1
    /\ UNCHANGED <<serverVars, redis, redisErrors, buffer, execs, event>>

Send == \E req \in BatchRequests : Sends(req)

\* One worker may have pulled all but one request of a batch since its last
\* flush.
SeedRequest == << <<BatchEntry("ip", "a")>> >>

InitBatcher ==
    /\ redis = <<>>
    /\ InitIdle
    /\ InitServing
    /\ InitUserService
    /\ queue = <<>>
    /\ \E filling \in SUBSET Workers :
          /\ Cardinality(filling) <= 1
          /\ buffer = [w \in Workers |->
                      IF w \in filling THEN [i \in 1..(bufferCapacity - 1) |-> SeedRequest]
                      ELSE <<>>]
    /\ execs = 0
    /\ event = <<>>
    /\ sent = 0

NextBatcher ==
    \/ Send
    \/ \E w \in Workers : Receive(w)
    \/ \E w \in Workers : TickerFires(w)

SpecBatcher == InitBatcher /\ [][NextBatcher]_vars

\* The ticker of a worker delivers a tick every 100 ms (line 231) and the
\* select of lines 233-243 takes a case that stays ready: the timer case of
\* every worker is taken again and again.
\* What the updates hold does not decide whether a worker flushes them: here
\* the sender puts updates of one address on the channel.
SendSeed == Sends(SeedRequest)

NextBatcherFair ==
    \/ SendSeed
    \/ \E w \in Workers : Receive(w)
    \/ \E w \in Workers : TickerFires(w)

SpecBatcherFair ==
    /\ InitBatcher
    /\ [][NextBatcherFair]_vars
    /\ \A w \in Workers : WF_vars(TickerFires(w))

\* ------------------------------------------------------- the transport
\* One call with any metadata, whose caller may cancel it while it runs.
HandleIntercepted ==
    /\ ~Returned
    /\ evaluated = 0
    /\ \E descriptor \in SeqsUpTo(Entries, 1), fate \in Fates :
          ShouldRateLimit(<<descriptor>>, <<fate>>)
    /\ \E md \in Metadatas, canceled \in BOOLEAN : Intercepted(md, canceled)

NextTransport == HandleIntercepted \/ Deliver

InitTransport ==
    redis = <<>> /\ InitIdle /\ InitServing /\ InitPool /\ InitUserService

SpecTransport == InitTransport /\ [][NextTransport]_vars

\* -------------------------------------------------------- the process
\* The process from the start of main, in the environment of the deployment
\* or one that sets no variable, or one variable to its default or to half of
\* it.
EnvDefault(n) ==
    CASE n = "RATE_LIMIT_WINDOW" -> window
      [] n = "IP_RATE_LIMIT" -> ipLimit
      [] n = "COMPANY_RATE_LIMIT" -> companyLimit
      [] n = "PATH_RATE_LIMIT" -> pathLimit
      [] n = "USER_RATE_LIMIT" -> userLimit
Envs == {[n \in EnvNames |-> <<>>], DeploymentEnv} \cup
        UNION {{[n \in EnvNames |-> IF n = m THEN <<v>> ELSE <<>>] :
                    v \in {EnvDefault(m), EnvDefault(m) \div 2}} : m \in EnvNames}

\* One step of main: it succeeds and main goes on, or it fails and the
\* process exits.
StartupStep ==
    /\ proc.state = "starting"
    /\ LET step == StartupSteps[proc.at]
       IN \E ok \in (IF step \in Fallible THEN BOOLEAN ELSE {TRUE}) :
            proc' = IF ok
                    THEN [state |-> IF proc.at = Len(StartupSteps)
                                    THEN "serving" ELSE "starting",
                          at |-> proc.at + 1,
                          done |-> proc.done \cup {step},
                          failed |-> proc.failed,
                          workers |-> IF step = "pool" THEN poolSize ELSE proc.workers]
                    ELSE [proc EXCEPT !.state = "exited", !.failed = {step}]
    /\ UNCHANGED <<redis, localCache, now, rateLimitRequests, redisErrors, request,
                   response, rpcError, evals, evaluated, batcherVars, transportVars, env,
                   userVars>>

\* The serving process takes one call.
HandleServed ==
    /\ proc.state = "serving"
    /\ ~Returned
    /\ evaluated = 0
    /\ \E k \in ScanKeys, fate \in Fates :
          ShouldRateLimit(<< <<[Key |-> k, Value |-> "a"]>> >>, <<fate>>)
    /\ Intercepted(NoMetadata, FALSE)

InitProcess ==
    /\ redis = <<>>
    /\ InitIdle
    /\ InitPool
    /\ InitUserService
    /\ proc = [state |-> "starting", at |-> 1, done |-> {}, failed |-> {}, workers |-> 0]
    /\ env \in Envs

NextProcess == StartupStep \/ HandleServed \/ Deliver

SpecProcess == InitProcess /\ [][NextProcess]_vars

\* ---------------------------------------------------- the user service
\* userService.CreateUser (service/user.go, lines 44-58) over userRepository
\* (repository/user.go): every command the call sends to its Redis is one
\* step, and the calls of the HTTP server's goroutines interleave between
\* them.  A call is followed from its request to its return; uuid.New gives
\* every call an id of its own, here the number of the call.
rateLimiterVars == <<redis, localCache, now, rateLimitRequests, redisErrors, request,
                     response, rpcError, evals, evaluated, batcherVars, transportVars,
                     processVars>>

\* What a command turns out to do: it is carried out, or it fails and
\* changes nothing.
CommandFates == {"ok", "failed"}

ErrEmailTaken == "email already taken"
ErrDatabaseError == "database error"

\* A call that has returned, with the error it returned ("" is nil).
Return_(call, err) == [call EXCEPT !.pc = "returned", !.err = err]

\* Lines 47-57: no existing user was found, or the lookup failed; the user
\* gets its id and the call goes on to repo.Create.
Proceed(call, c) == [call EXCEPT !.pc = "SetUser", !.id = c]

\* A request for a new user with the email arrives.
CreateUser(c) ==
    /\ calls[c].pc = "idle"
    /\ \E email \in Emails :
          calls' = [calls EXCEPT ![c] = [calls[c] EXCEPT !.pc = "GetByEmail", !.email = email]]
    /\ UNCHANGED <<users, emailIndex, rateLimiterVars>>

\* GetByEmail, lines 76-83: the Get of the email key.
GetByEmail(c) ==
    /\ calls[c].pc = "GetByEmail"
    /\ \E fate \in CommandFates :
          calls' = [calls EXCEPT ![c] =
                      IF fate = "failed" THEN Proceed(calls[c], c)
                      ELSE IF calls[c].email \notin DOMAIN emailIndex
                      THEN Proceed(calls[c], c)
                      ELSE [calls[c] EXCEPT !.pc = "GetByID",
                                            !.userID = emailIndex[calls[c].email]]]
    /\ UNCHANGED <<users, emailIndex, rateLimiterVars>>

\* GetByID, lines 58-72, called from line 85, and the test of line 47.
GetByID(c) ==
    /\ calls[c].pc = "GetByID"
    /\ \E fate \in CommandFates :
          calls' = [calls EXCEPT ![c] =
                      IF fate = "failed" THEN Proceed(calls[c], c)
                      ELSE IF calls[c].userID \notin DOMAIN users
                      THEN Proceed(calls[c], c)
                      ELSE Return_(calls[c], ErrEmailTaken)]
    /\ UNCHANGED <<users, emailIndex, rateLimiterVars>>

\* Create, lines 39-46: the Set of the user key.
SetUser(c) ==
    /\ calls[c].pc = "SetUser"
    /\ \E fate \in CommandFates :
          IF fate = "failed"
          THEN /\ calls' = [calls EXCEPT ![c] = Return_(@, ErrDatabaseError)]
               /\ UNCHANGED users
          ELSE /\ users' = [id \in DOMAIN users \cup {calls[c].id} |->
                              IF id = calls[c].id
                              THEN [ID |-> calls[c].id, Email |-> calls[c].email]
                              ELSE users[id]]
               /\ calls' = [calls EXCEPT ![c] = [@ EXCEPT !.pc = "SetEmail"]]
    /\ UNCHANGED <<emailIndex, rateLimiterVars>>

\* Create, lines 49-54: the Set of the email key.
SetEmail(c) ==
    /\ calls[c].pc = "SetEmail"
    /\ \E fate \in CommandFates :
          IF fate = "failed"
          THEN /\ calls' = [calls EXCEPT ![c] = Return_(@, ErrDatabaseError)]
               /\ UNCHANGED emailIndex
          ELSE /\ emailIndex' = [e \in DOMAIN emailIndex \cup {calls[c].email} |->
                                   IF e = calls[c].email THEN calls[c].id
                                   ELSE emailIndex[e]]
               /\ calls' = [calls EXCEPT ![c] = Return_(@, "")]
    /\ UNCHANGED <<users, rateLimiterVars>>

InitUsers == redis = <<>> /\ InitIdle /\ InitServing /\ InitPool /\ InitUserService

NextUsers ==
    \/ \E c \in Callers : CreateUser(c)
    \/ \E c \in Callers : GetByEmail(c)
    \/ \E c \in Callers : GetByID(c)
    \/ \E c \in Callers : SetUser(c)
    \/ \E c \in Callers : SetEmail(c)

SpecUsers == InitUsers /\ [][NextUsers]_vars

TypeOK ==
    /\ DOMAIN redis \subseteq CounterKeys
    /\ DOMAIN localCache \subseteq CounterKeys
    /\ now \in 0..MaxTime

\* ------------------------------------------------------------- the claims
\* The response of the call that has just returned, and what a caller reads
\* from its i-th status (the getters of a nil status give the zero values).
Statuses == response[1].Statuses
OverallCode == response[1].OverallCode
Populated(i) == Statuses[i] # <<>>
Code(i) == IF Populated(i) THEN Statuses[i][1].Code ELSE UNKNOWN
HasLimit(i) == Populated(i) /\ Statuses[i][1].CurrentLimit # <<>>
LimitRemaining(i) == IF Populated(i) THEN Statuses[i][1].LimitRemaining ELSE 0
RequestsPerUnit(i) == Statuses[i][1].CurrentLimit[1].RequestsPerUnit
Max(a, b) == IF a >= b THEN a ELSE b
Positions == 1..Len(evals)
FailedIncrs(es) == {i \in 1..Len(es) : es[i].path = "incr_failed"}
NoKeys(es) == {i \in 1..Len(es) : es[i].path = "nokey"}

\* C1: a descriptor whose Increment succeeded with count c and limit L has status
\* OVER_LIMIT when c > L and OK when c <= L.
C1_VerdictFollowsCount ==
    response # <<>> =>
        \A i \in Positions :
            evals[i].path = "incremented" =>
                Code(i) = IF evals[i].count > evals[i].limit THEN OVER_LIMIT ELSE OK

\* C2: the overall code is OK iff every descriptor status is OK, and it is
\* OVER_LIMIT when some descriptor status is OVER_LIMIT.
C2_OverallIsWorstVerdict ==
    response # <<>> =>
        /\ (OverallCode = OK) <=> (\A i \in Positions : Code(i) = OK)
        /\ (\E i \in Positions : Code(i) = OVER_LIMIT) => OverallCode = OVER_LIMIT

\* C3: a request of n descriptors gets n statuses, and the i-th is a populated
\* status, also where descriptor i hit an error.
C3_OneStatusPerDescriptor ==
    response # <<>> =>
        /\ Len(Statuses) = Len(request)
        /\ \A i \in 1..Len(request) : Populated(i)

\* C4: where the limit is populated after an Increment that returned c under
\* limit L, LimitRemaining = max(0, L - c).
C4_RemainingIsLimitMinusCount ==
    response # <<>> =>
        \A i \in Positions :
            (evals[i].path = "incremented" /\ HasLimit(i)) =>
                LimitRemaining(i) = Max(0, evals[i].limit - evals[i].count)

\* C5: where a limit is populated, CurrentLimit.requests_per_unit is the
\* configured limit of the descriptor's dimension, whatever the counter holds.
C5_CurrentLimitIsConfiguredLimit ==
    response # <<>> =>
        \A i \in Positions : HasLimit(i) => RequestsPerUnit(i) = evals[i].limit

\* C6: a descriptor answered from a cache entry with count >= limit has status
\* OVER_LIMIT with LimitRemaining 0, and no Increment is issued for it.
C6_CacheHitDenies ==
    [][(~Returned /\ response' # <<>>) =>
        \A i \in 1..Len(evals') :
            (/\ evals'[i].key \in DOMAIN localCache
             /\ localCache[evals'[i].key] >= evals'[i].limit
             /\ \A j \in 1..(i - 1) : evals'[j].key # evals'[i].key)
            => /\ Code(i)' = OVER_LIMIT
               /\ LimitRemaining(i)' = 0
               /\ evals'[i].path = "cached"]_vars

\* C7: a descriptor whose Increment failed has status OVER_LIMIT, and
\* redis_errors_total{operation=incr} grows by one for each such descriptor.
C7_StoreErrorFailsClosed ==
    [][(~Returned /\ response' # <<>>) =>
        /\ \A i \in FailedIncrs(evals') : Code(i)' = OVER_LIMIT
        /\ redisErrors'["incr"] = redisErrors["incr"] + Cardinality(FailedIncrs(evals'))]_vars

\* C8: a descriptor without a recognized key has status OK, and
\* rate_limit_requests_total{status=error} grows by one for it.
C8_UnrecognizedIsOkAndCounted ==
    [][(~Returned /\ response' # <<>>) =>
        /\ \A i \in NoKeys(evals') : Code(i)' = OK
        /\ rateLimitRequests'["error"] = rateLimitRequests["error"]
              + Cardinality(NoKeys(evals')) + Cardinality(FailedIncrs(evals'))]_vars

\* C9: every call returns a response and a nil error, also when descriptors are
\* unrecognized or the store fails.
C9_NeverReturnsError ==
    /\ rpcError = <<>>
    /\ evals # <<>> => response # <<>>

C9_Witness ==
    /\ response # <<>>
    /\ rpcError = <<>>
    /\ NoKeys(evals) # {}
    /\ FailedIncrs(evals) # {}

\* C10: a request on a key whose counter has expired in the store is counted
\* there and sees count 1 (LimitRemaining = limit - 1), also when the cache of
\* this process still holds the count the key reached in the previous window.
C10_FreshWindowAfterExpiry ==
    [][(~Returned /\ response' # <<>>) =>
        \A i \in 1..Len(evals') :
            (/\ evals'[i].key \in DOMAIN localCache
             /\ evals'[i].key \notin DOMAIN redis
             /\ evals'[i].path # "incr_failed"
             /\ \A j \in 1..(i - 1) : evals'[j].key # evals'[i].key)
            => /\ evals'[i].path = "incremented"
               /\ evals'[i].count = 1
               /\ LimitRemaining(i)' = evals'[i].limit - 1]_vars
\* The count the store holds for a key; an absent counter counts 0.
StoreCount(store, k) == IF k \in DOMAIN store THEN store[k].count ELSE 0

\* C11: the Increment that creates a counter sets its expiration to
\* now + window, and no later Increment on the counter changes the expiration.
C11_FixedWindow ==
    [][\A k \in CounterKeys :
        /\ (k \notin DOMAIN redis /\ k \in DOMAIN redis') =>
                redis'[k].expireAt = now + window
        /\ (k \in DOMAIN redis /\ k \in DOMAIN redis') =>
                redis'[k].expireAt = redis[k].expireAt]_vars

\* C12: while no request is in progress, every count the cache holds for a
\* key is at most the count the store holds for it, an expired counter
\* counting 0.
C12_CacheWithinStore ==
    ~Returned =>
        \A k \in DOMAIN localCache : localCache[k] <= StoreCount(redis, k)

\* C13: a request of one descriptor on a key whose counter stands at its limit
\* L gets overall code OVER_LIMIT and LimitRemaining 0, and leaves the counter
\* above L.
C13_RequestPastLimit ==
    [][(~Returned /\ response' # <<>> /\ Len(request') = 1) =>
        \A k \in CounterKeys :
            (/\ evals'[1].key = k
             /\ evals'[1].path # "incr_failed"
             /\ StoreCount(redis, k) = LimitOf(k))
            => /\ OverallCode' = OVER_LIMIT
               /\ LimitRemaining(1)' = 0
               /\ StoreCount(redis', k) > LimitOf(k)]_vars

\* C14: in a request whose descriptors are counted on different keys, when
\* exactly one count exceeds its limit, that descriptor's status is OVER_LIMIT,
\* the others are OK, and the overall code is OVER_LIMIT.
Exceeded == {i \in Positions : evals[i].count > evals[i].limit}

C14_OnlyExceededDescriptorDenied ==
    (/\ response # <<>>
     /\ Len(evals) >= 2
     /\ \A i \in Positions : evals[i].path = "incremented"
     /\ \A i, j \in Positions : i # j => evals[i].key # evals[j].key
     /\ Cardinality(Exceeded) = 1)
        => /\ \A i \in Exceeded : Code(i) = OVER_LIMIT
           /\ \A i \in Positions \ Exceeded : Code(i) = OK
           /\ OverallCode = OVER_LIMIT

\* The mapping the claims name, from entry key to counter prefix and limit.
Dimension(k) ==
    CASE k = "remote_address" -> [prefix |-> "ip:", limit |-> ipLimit]
      [] k = "path" -> [prefix |-> "path:", limit |-> pathLimit]
      [] k = "company_id" -> [prefix |-> "company:", limit |-> companyLimit]
      [] k = "user_id" -> [prefix |-> "user:", limit |-> userLimit]
RecognizedKeys == {"remote_address", "path", "company_id", "user_id"}
Recognized(d) == {i \in 1..Len(d) : d[i].Key \in RecognizedKeys}
CounterOf(entry) == Dimension(entry.Key).prefix \o entry.Value
LastOf(S) == CHOOSE i \in S : \A j \in S : j <= i

C16_LastRecognizedWins ==
    [][(~Returned /\ response' # <<>> /\ Len(request') = 1) =>
        LET d == request'[1]
            e == evals'[1]
        IN Cardinality(Recognized(d)) >= 2 =>
              /\ e.key = CounterOf(d[LastOf(Recognized(d))])
              /\ e.limit = Dimension(d[LastOf(Recognized(d))].Key).limit
              /\ \A k \in DOMAIN redis \cup DOMAIN redis' :
                    /\ k # e.key => StoreCount(redis', k) = StoreCount(redis, k)
                    /\ k = e.key => StoreCount(redis', k) <= StoreCount(redis, k) + 1]_vars

C16_Witness ==
    /\ response # <<>>
    /\ Len(request[1]) = 3
    /\ request[1][1] = [Key |-> "company_id", Value |-> "a"]
    /\ request[1][2] = [Key |-> "remote_address", Value |-> "b"]
    /\ request[1][3].Key = "foo"
    /\ evals[1].path = "incremented"
    /\ StoreCount(redis, "ip:b") = 1
    /\ StoreCount(redis, "company:a") = 0

\* C17: within one window of a counter, every value Increment returns is
\* greater than every value it returned before, whichever replica called: the
\* store's count never decreases, and the values one call of this replica got
\* for a key rise from above the count the store held before the call.
Incremented(es, k) == {i \in 1..Len(es) : es[i].key = k /\ es[i].path = "incremented"}

C17_IncrStrictlyIncreasing ==
    [][\A k \in CounterKeys :
        /\ (k \in DOMAIN redis /\ k \in DOMAIN redis') =>
                redis'[k].count >= redis[k].count
        /\ (~Returned /\ response' # <<>>) =>
                /\ \A i \in Incremented(evals', k) :
                      /\ evals'[i].count > StoreCount(redis, k)
                      /\ evals'[i].count <= StoreCount(redis', k)
                /\ \A i, j \in Incremented(evals', k) :
                      i < j => evals'[i].count < evals'[j].count]_vars

\* The store gave 1 to another replica and then 2 to this one.
C17_Witness ==
    /\ response # <<>>
    /\ rateLimitRequests["success"] = 1
    /\ evaluated = 2
    /\ Len(evals) = 1
    /\ evals[1].path = "incremented"
    /\ evals[1].count = 2

\* C18: a status whose CurrentLimit is populated names the unit MINUTE.
C18_UnitIsMinute ==
    response # <<>> =>
        \A i \in Positions : HasLimit(i) => Statuses[i][1].CurrentLimit[1].Unit = MINUTE

C18_Witness ==
    /\ response # <<>>
    /\ \E i \in Positions : HasLimit(i) /\ evals[i].path = "incremented"

\* C19: a handled request is placed on the queue the workers receive from,
\* unless that queue is full.
C19_RequestEnqueuesUpdate ==
    [][(~Returned /\ Returned') =>
        (Len(queue) < queueCapacity => queue' = Append(queue, request'))]_vars

\* C20: handling a request adds one update to a channel of the batcher when
\* the channel has room and none when it is full, and no channel ever holds
\* more than its capacity.
C20_EnqueueNeverBlocks ==
    [][(~Returned /\ Returned') =>
        /\ Len(updateQueue') <= queueCapacity
        /\ Len(queue') <= queueCapacity
        /\ IF Len(updateQueue) < queueCapacity /\ Len(queue) < queueCapacity
           THEN Len(updateQueue') + Len(queue') = Len(updateQueue) + Len(queue) + 1
           ELSE Len(updateQueue') + Len(queue') = Len(updateQueue) + Len(queue)]_vars
\* The last step of a worker.
LastEvent == event[1]

\* C21: a worker's step flushes exactly when it pulled the request that filled
\* the buffer to its capacity, or when its timer fired on a non-empty buffer;
\* a flush leaves the buffer empty, and no buffer ever holds more than its
\* capacity.
C21_FlushExactlyWhenFullOrTimed ==
    /\ \A w \in Workers : Len(buffer[w]) <= bufferCapacity
    /\ event # <<>> =>
          /\ LastEvent.flushed <=>
                \/ LastEvent.kind = "pull" /\ LastEvent.held = bufferCapacity
                \/ LastEvent.kind = "tick" /\ LastEvent.held > 0
          /\ LastEvent.flushed => buffer[LastEvent.worker] = <<>>
          /\ ~LastEvent.flushed => Len(buffer[LastEvent.worker]) = LastEvent.held

\* A pull has filled a buffer and flushed it while another worker still holds
\* requests it has not flushed.
C21_Witness ==
    /\ event # <<>>
    /\ LastEvent.kind = "pull"
    /\ LastEvent.held = bufferCapacity
    /\ LastEvent.flushed
    /\ execs = 1
    /\ \E w \in Workers : w # LastEvent.worker /\ buffer[w] # <<>>

\* C22: a flush whose pipeline fails counts the failure in
\* redis_errors_total{operation=pipeline_exec}, executes one pipeline and no
\* second one, and leaves the worker's buffer empty.
C22_FailedPipelineIsDropped ==
    [][(execs' # execs /\ event'[1].failed) =>
        /\ redisErrors'["pipeline_exec"] = redisErrors["pipeline_exec"] + 1
        /\ execs' = execs + 1
        /\ buffer'[event'[1].worker] = <<>>
        /\ \A w \in Workers \ {event'[1].worker} : buffer'[w] = buffer[w]]_vars

C22_Witness ==
    /\ event # <<>>
    /\ LastEvent.flushed
    /\ LastEvent.failed
    /\ LastEvent.kind = "tick"
    /\ redisErrors["pipeline_exec"] = 2
    /\ execs = 2

\* The batch a worker's step flushes, read before the step.
BatchOf(e) == IF e.kind = "pull" THEN Append(buffer[e.worker], Head(queue))
              ELSE buffer[e.worker]
Descriptors_(batch) ==
    UNION {{<<i, j>> : j \in 1..Len(batch[i])} : i \in 1..Len(batch)}
ValuesOf(descriptor, key) ==
    {descriptor[n].Value : n \in {m \in 1..Len(descriptor) : descriptor[m].Key = key}}
KeysOfDescriptor(descriptor) ==
    {"ip:" \o v : v \in ValuesOf(descriptor, "ip")}
    \cup {"company:" \o c : c \in ValuesOf(descriptor, "company_id")}
    \cup {"combined:" \o v \o ":" \o c :
            v \in ValuesOf(descriptor, "ip"), c \in ValuesOf(descriptor, "company_id")}
BatchKeys(batch) ==
    UNION {KeysOfDescriptor(batch[d[1]][d[2]]) : d \in Descriptors_(batch)}
Wanted(batch, k) ==
    Cardinality({d \in Descriptors_(batch) : k \in KeysOfDescriptor(batch[d[1]][d[2]])})

\* C23: a flush whose pipeline succeeds adds to every key one increment for
\* each descriptor of each buffered request that names it: ip:<v> for an ip
\* entry, company:<c> for a company_id entry, combined:<v>:<c> for a descriptor
\* with both.
C23_IncrementsPerDescriptor ==
    [][(execs' # execs /\ ~event'[1].failed) =>
        \A k \in BatchKeys(BatchOf(event'[1])) \cup DOMAIN redis' :
            StoreCount(redis', k) = StoreCount(redis, k) + Wanted(BatchOf(event'[1]), k)]_vars

\* C24: a key that a flush creates in the store expires at now + window.
C24_PipelineSetsExpiration ==
    [][execs' # execs =>
        \A k \in DOMAIN redis' \ DOMAIN redis : redis'[k].expireAt = now + window]_vars
\* The evaluations of a request made against key k.
Against(es, k) == {i \in 1..Len(es) : es[i].key = k}

C26_CancelAbortsStoreCall ==
    [][(~Returned /\ Returned' /\ ctx'.canceled) =>
        \A i \in 1..Len(evals') : evals'[i].path # "incremented"]_vars

\* The value the interceptor is to bind for key k: the first the metadata
\* holds for it, if any.
FirstValue(md, k) ==
    IF md = NoMetadata THEN <<>>
    ELSE IF md[1][k] = <<>> THEN <<>>
    ELSE <<Head(md[1][k])>>

\* C29: for every request the interceptor calls the handler once, with a
\* context that binds each of the three tracing keys to the first value the
\* metadata holds for it and leaves it unbound when there is none, and it
\* returns the response and the error the handler returned.
C29_InterceptorBindsFirstValues ==
    [][(~Returned /\ Returned') =>
        /\ rateLimitRequests'["success"] = rateLimitRequests["success"] + 1
        /\ \A k \in TraceKeys : ctx'.values[k] = FirstValue(metadata', k)
        /\ reply' = <<[response |-> response', err |-> rpcError']>>
        /\ Len(Statuses') = Len(request')]_vars

C29_Witness ==
    /\ reply # <<>>
    /\ metadata # NoMetadata
    /\ metadata[1]["x-request-id"] = <<"2", "1">>
    /\ metadata[1]["x-b3-traceid"] = <<>>
    /\ metadata[1]["x-b3-spanid"] = <<"1">>
    /\ ctx.values["x-request-id"] = <<"2">>
    /\ ctx.values["x-b3-traceid"] = <<>>
    /\ rateLimitRequests["success"] = 1
\* What the process needs before it may serve or start a worker.
Prerequisites == {"main_logger", "logger", "cache", "ping"}

\* C27: the process has served a request or started a worker only if the
\* loggers, the cache and the Ping all succeeded, and once one of them has
\* failed the process has exited without a worker and without a request.
C27_StartupOrdering ==
    /\ (proc.workers > 0 \/ proc.state = "serving" \/ Returned
            \/ rateLimitRequests["success"] > 0)
        => Prerequisites \subseteq proc.done
    /\ proc.failed \cap Prerequisites # {} =>
          /\ proc.state = "exited"
          /\ proc.workers = 0
          /\ rateLimitRequests["success"] = 0
          /\ ~Returned

\* The Ping failed after the loggers and the cache were created.
C27_Witness ==
    /\ proc.failed = {"ping"}
    /\ {"main_logger", "logger", "cache"} \subseteq proc.done
    /\ proc.state = "exited"

\* The value the environment configures for a variable, or the default.
Configured(n, default) == IF env[n] # <<>> THEN env[n][1] ELSE default
ConfiguredLimit(key) ==
    CASE key = "ip:a" -> Configured("IP_RATE_LIMIT", 1000)
      [] key = "company:a" -> Configured("COMPANY_RATE_LIMIT", 10000)
      [] key = "path:a" -> Configured("PATH_RATE_LIMIT", 500)
      [] key = "user:a" -> Configured("USER_RATE_LIMIT", 100)

\* C28: every evaluation uses the limit the environment sets for its
\* dimension, or the default 1000, 10000, 500, 100 when it sets none, and a
\* counter it creates expires RATE_LIMIT_WINDOW, by default 60 s, after now.
C28_LimitsFollowEnvironment ==
    response # <<>> =>
        \A i \in Positions :
            evals[i].key # "" =>
                /\ evals[i].limit = ConfiguredLimit(evals[i].key)
                /\ (evals[i].path = "incremented"
                        /\ redis[evals[i].key].expireAt # NoExpiry)
                    => redis[evals[i].key].expireAt
                          = now + Configured("RATE_LIMIT_WINDOW", 60)

\* The evaluations of a request on key k whose status is OK, and the number
\* of evaluations the store has counted on k in the window that is open at t.
OkOn(es, sts, k) ==
    {i \in 1..Len(es) : es[i].key = k /\ sts[i] # <<>> /\ sts[i][1].Code = OK}
CountedInWindow(store, k, t) ==
    IF k \in DOMAIN store /\ store[k].expireAt # NoExpiry /\ store[k].expireAt > t
    THEN store[k].count ELSE 0
AtMost(a, b) == IF a <= b THEN a ELSE b

\* C30: whatever the replicas sharing the store did before, at most L
\* evaluations on a key with limit L get status OK in one window: of the n
\* evaluations the store already counted in the open window the first
\* min(n, L) were within the limit, so a request gets at most L - min(n, L)
\* further OK statuses on that key.
C30_AtMostLimitOkPerWindow ==
    [][(~Returned /\ response' # <<>>) =>
        \A k \in CounterKeys :
            Cardinality(OkOn(evals', response'[1].Statuses, k))
                + AtMost(CountedInWindow(redis, k, now), LimitOf(k))
              <= LimitOf(k)]_vars

\* C31: every counter that is live in the store carries an expiration, also
\* after an Expire that failed, so that none outlives its window for ever.
C31_LiveCounterExpires ==
    \A k \in DOMAIN redis : redis[k].expireAt # NoExpiry

\* C32: a worker that holds updates in its buffer eventually flushes them:
\* with its timer taken fairly, a non-empty buffer is eventually empty again,
\* whether or not further updates arrive.
C32_BufferEventuallyFlushed ==
    \A w \in Workers : (buffer[w] # <<>>) ~> (buffer[w] = <<>>)

\* The timer has flushed a buffer that held fewer updates than its capacity
\* while nothing was left to pull.
C32_Witness ==
    /\ event # <<>>
    /\ LastEvent.kind = "tick"
    /\ LastEvent.flushed
    /\ LastEvent.held < bufferCapacity
    /\ queue = <<>>
    /\ sent = MaxSends
    /\ \A w \in Workers : buffer[w] = <<>>

\* The updates on the channel and in the workers' buffers together.
RECURSIVE Buffered(_, _)
Buffered(bufs, ws) ==
    IF ws = {} THEN 0
    ELSE LET w == CHOOSE x \in ws : TRUE
         IN Len(bufs[w]) + Buffered(bufs, ws \ {w})
InFlight(q, bufs) == Len(q) + Buffered(bufs, Workers)

\* C33: with the workers draining the channel side by side, an update taken
\* from the channel is in the buffer of the worker that took it and in no
\* other; a flush takes the whole buffer of its worker, once, and leaves it
\* empty; and no step of a worker changes the buffer of another worker.
C33_OneBufferOneFlush ==
    [][/\ InFlight(queue', buffer')
            = InFlight(queue, buffer) + (sent' - sent)
                - (IF execs' # execs THEN event'[1].held ELSE 0)
       /\ \A w \in Workers :
             buffer'[w] # buffer[w] => event'[1].worker = w
       /\ (queue' # queue /\ sent' = sent) =>
             /\ queue' = Tail(queue)
             /\ event'[1].kind = "pull"
             /\ ~event'[1].flushed =>
                   buffer'[event'[1].worker]
                      = Append(buffer[event'[1].worker], Head(queue))
       /\ execs' # execs =>
             /\ execs' = execs + 1
             /\ event'[1].held = Len(BatchOf(event'[1]))
             /\ buffer'[event'[1].worker] = <<>>]_vars

\* Two workers hold updates at once: one has flushed a batch of its own and
\* pulled again, while the buffer of the other is as it was.
C33_Witness ==
    /\ event # <<>>
    /\ execs = 1
    /\ LastEvent.kind = "pull"
    /\ ~LastEvent.flushed
    /\ Len(buffer[LastEvent.worker]) = 1
    /\ \E w \in Workers \ {LastEvent.worker} : Len(buffer[w]) = bufferCapacity - 1

\* The counts the Increments of a request returned for key k, and the last of
\* them.
Returned_(es, k) == {es[i].count : i \in Incremented(es, k)}
LastReturned(es, k) ==
    es[CHOOSE i \in Incremented(es, k) : \A j \in Incremented(es, k) : j <= i].count
\* The first evaluation of a request on its key, which reads the cache as the
\* request found it.
FirstOnKey(es, i) == es[i].key # "" /\ \A j \in 1..(i - 1) : es[j].key # es[i].key

\* Every value a request puts in the cache is a count >= 1 that an Increment
\* of the request returned for that key.
CacheHoldsReturnedCounts ==
    \A k \in DOMAIN localCache' :
        /\ localCache'[k] >= 1
        /\ (k \notin DOMAIN localCache \/ localCache'[k] # localCache[k])
              => localCache'[k] \in Returned_(evals', k)
\* A cache miss or a cache hit below the limit leads to an Increment.
MissLeadsToIncrement ==
    \A i \in 1..Len(evals') :
        (/\ FirstOnKey(evals', i)
         /\ (evals'[i].key \notin DOMAIN localCache
                \/ localCache[evals'[i].key] < evals'[i].limit))
        => evals'[i].path \in {"incremented", "incr_failed"}

\* C34, as claimed: cached values are counts the store returned for the key,
\* a miss or a hit below the limit leads to an Increment, and after a
\* successful Increment the cache holds the returned count or no entry for
\* the key.
C34_CacheHoldsLastCountOrNothing ==
    [][(~Returned /\ response' # <<>>) =>
        /\ CacheHoldsReturnedCounts
        /\ MissLeadsToIncrement
        /\ \A k \in CounterKeys :
              (Incremented(evals', k) # {} /\ k \in DOMAIN localCache')
              => localCache'[k] = LastReturned(evals', k)]_vars

\* C34, amended: after a successful Increment the cache holds the returned
\* count, or what it held before the Set: an older count of the key or no
\* entry; the request removes no entry.
C34_CacheHoldsCountOrOlder ==
    [][(~Returned /\ response' # <<>>) =>
        /\ CacheHoldsReturnedCounts
        /\ MissLeadsToIncrement
        /\ \A k \in CounterKeys :
              (Incremented(evals', k) # {} /\ k \in DOMAIN localCache')
              => \/ localCache'[k] \in Returned_(evals', k)
                 \/ k \in DOMAIN localCache /\ localCache'[k] = localCache[k]
        /\ DOMAIN localCache \subseteq DOMAIN localCache']_vars

\* An Increment returned a count for a key and the cache still holds the
\* count an earlier request put there.
C34_Witness ==
    /\ response # <<>>
    /\ \E i \in Positions :
          /\ evals[i].path = "incremented"
          /\ evals[i].key \in DOMAIN localCache
          /\ localCache[evals[i].key] >= 1
          /\ localCache[evals[i].key] < evals[i].count

\* What the cache or the store holds for a key; <<>> when it holds nothing.
Held(f, k) == IF k \in DOMAIN f THEN <<f[k]>> ELSE <<>>

\* C35: a descriptor whose Increment failed leaves the cache as it was and
\* issues no Expire, so a key on which every Increment of the request failed
\* is unchanged in the cache and in the store, count and expiration; and the
\* descriptors after it are evaluated all the same.
C35_FailedIncrementChangesNothing ==
    [][(~Returned /\ response' # <<>>) =>
        /\ \A k \in CounterKeys :
              (Against(evals', k) # {} /\ Against(evals', k) \subseteq FailedIncrs(evals'))
              => /\ Held(localCache', k) = Held(localCache, k)
                 /\ Held(redis', k) = Held(redis, k)
        /\ Len(evals') = Len(request')
        /\ \A i \in 1..Len(request') :
              evals'[i].key = ScanEntries(request'[i], [limit |-> 0, key |-> ""]).key]_vars

\* The Increment of the first descriptor failed on a counter the store holds,
\* and the second descriptor was counted on another key.
C35_Witness ==
    /\ response # <<>>
    /\ Len(evals) = 2
    /\ evals[1].path = "incr_failed"
    /\ evals[1].key \in DOMAIN redis
    /\ evals[2].path = "incremented"
    /\ evals[2].key # evals[1].key
    /\ evals[2].key \in DOMAIN localCache
    /\ now > 0

\* The descriptors of a request that hold no recognized entry key.
Unrecognized(req) == {i \in 1..Len(req) : Recognized(req[i]) = {}}

\* C36: a descriptor without a recognized entry key is checked without a key
\* and touches neither the cache nor the store: a request of such descriptors
\* only leaves both as they were, and in any request a key that no other
\* descriptor selects is unchanged in both.
C36_UnrecognizedTouchesNothing ==
    [][(~Returned /\ response' # <<>>) =>
        /\ \A i \in Unrecognized(request') :
              evals'[i].path = "nokey" /\ evals'[i].key = ""
        /\ Unrecognized(request') = 1..Len(request') =>
              /\ localCache' = localCache
              /\ redis' = redis
              /\ redisErrors' = redisErrors
        /\ \A k \in CounterKeys :
              (\A i \in (1..Len(request')) \ Unrecognized(request') : evals'[i].key # k)
              => /\ Held(localCache', k) = Held(localCache, k)
                 /\ Held(redis', k) = Held(redis, k)]_vars

\* A request of one descriptor with entries, none of them recognized, was
\* handled while the cache and the store held counters.
C36_Witness ==
    /\ response # <<>>
    /\ Len(request) = 1
    /\ request[1] # <<>>
    /\ Unrecognized(request) = {1}
    /\ localCache # <<>>
    /\ redis # <<>>

\* The calls that created a user with the email: they returned without an
\* error.
Created(email) ==
    {c \in Callers : calls[c].pc = "returned" /\ calls[c].email = email /\ calls[c].err = ""}

\* C37: no two stored users share an email; of the CreateUser calls with one
\* email at most one succeeds; and the email key points to a stored user
\* with that email.
C37_EmailIsUnique ==
    /\ \A i, j \in DOMAIN users : users[i].Email = users[j].Email => i = j
    /\ \A email \in Emails : Cardinality(Created(email)) <= 1
    /\ \A email \in DOMAIN emailIndex :
          /\ emailIndex[email] \in DOMAIN users
          /\ users[emailIndex[email]].Email = email
====
